---- MODULE Spec2Model ----
(***************************************************************************)
(* django-jcache: a stale-while-revalidate cache (jcache/__init__.py).     *)
(*                                                                         *)
(* The model follows JCache.get, JCache.freshen, JCache.set,               *)
(* JCache.delete, JCache.clear and the Celery task invoke_async at the     *)
(* granularity of one backend call (cache.get / set / incr / decr /        *)
(* delete / clear), one broker call (apply_async, AsyncResult.get) or one  *)
(* generator call per step: these are the points at which callers in       *)
(* other processes and Celery workers interleave.  The Python statements   *)
(* between two such calls only touch locals of the frame and belong to the *)
(* step of the call that precedes them.                                    *)
(*                                                                         *)
(* Time is an integer clock (time.time() in seconds).  The Django cache    *)
(* backend drops an entry when its timeout has elapsed; the tick action    *)
(* does it when the clock reaches the entry's expiry time.  A second       *)
(* passes only where a caller or a worker can spend one: between calls,    *)
(* while a task is queued, while a generator runs and while a caller       *)
(* waits for a task; the statements between two backend calls of one       *)
(* call take no time.                                                      *)
(***************************************************************************)
EXTENDS Integers, Sequences, FiniteSets, TLC

VARIABLES
    store,   \* the Django cache backend: backend key -> [val, exp]
    now,     \* time.time()
    c,       \* one frame per caller: the locals of the get / freshen call it runs
    tasks,   \* the Celery queue and result backend: task id -> invoke_async task
    hist     \* history: counters and flags the properties are stated with

vars == <<store, now, c, tasks, hist>>

----------------------------------------------------------------------------
(* Bounds of the model *)

\* the clock runs from 0 to MaxTime
MaxTime == 3
\* calls (get, freshen, set, delete, clear, forcing a lazy result) started in a run
MaxCalls == 2
\* the namespace's stale window, JCache(stale=...), in seconds
Stale == 1
\* the namespace's expiry, JCache(expiry=...), in seconds
Expiry == 3
\* times a caller asks a resolved lazy result for its value
MaxForce == 2

\* concurrent callers (threads or processes calling into JCache), in the
\* order in which they make their first call
ProcSeq == <<"p1", "p2">>
Procs == {ProcSeq[i] : i \in 1..Len(ProcSeq)}
\* cache keys callers use
Keys == {"k"}
\* the version argument; one version partition is modelled
Versions == {"1"}

----------------------------------------------------------------------------
(* Python values *)

\* None, where the value is a string (cache values, generators, exceptions)
None == "None"
\* None, where the value is a number (timeout=None, expires_at=None, stale=None)
NoneT == 0 - 1000
\* the backend's default timeout (TIMEOUT), used when timeout is None
DefaultTimeout == 300

\* values of the stale argument of get / freshen (None: use the namespace default)
StaleArgs == {NoneT}

\* generators: G has no _jcache_options, GLazy has _jcache_options =
\* {'lazy_result': True}; either returns "result" or raises
Generators == {"G", "GLazy"}

\* getattr(generator, '_jcache_options', {}).get('lazy_result')
lazy_result(generator) == generator = "GLazy"

\* (stale or jcache.stale)
EffStale(stale) == IF stale = NoneT \/ stale = 0 THEN Stale ELSE stale

\* the timeout of the flag key, 1 + (stale or self.stale)
FlagTimeout(stale) == 1 + EffStale(stale)

----------------------------------------------------------------------------
(* The Django cache backend (self._cache).  Keys are strings. *)

\* "data:%s" % key
DataKey(key) == "data:" \o key
\* "flag:%s" % key
FlagKey(key) == "flag:" \o key
\* the backend's key function: the version partitions the key space
make_key(name, version) == version \o ":" \o name

Has(s, bk) == bk \in DOMAIN s

\* cache.set(key, value, timeout=timeout) at time t
cache_set(s, bk, v, timeout, t) ==
    [x \in DOMAIN s \cup {bk} |->
        IF x = bk
        THEN [val |-> v,
              exp |-> t + (IF timeout = NoneT THEN DefaultTimeout ELSE timeout)]
        ELSE s[x]]

\* cache.delete(key)
cache_delete(s, bk) == [x \in DOMAIN s \ {bk} |-> s[x]]

\* cache.incr(key, delta) on a key that exists: atomic, keeps the timeout
cache_incr(s, bk, delta) == [s EXCEPT ![bk].val = @ + delta]

\* entries whose timeout has elapsed at time t are gone
Unexpired(s, t) == [x \in {y \in DOMAIN s : s[y].exp > t} |-> s[x]]

----------------------------------------------------------------------------
(* JCache helpers *)

\* the cache entry: (value, stale_at)
Packed(value, stale_at) == [some |-> TRUE, value |-> value, stale_at |-> stale_at]
\* packed is None
NoPacked == [some |-> FALSE, value |-> None, stale_at |-> 0]

\* self._cache.get("data:%s" % key, default=None, version=version)
ReadPacked(s, key, version) ==
    IF Has(s, make_key(DataKey(key), version))
    THEN s[make_key(DataKey(key), version)].val
    ELSE NoPacked

\* JCache._reset_flag: set the flag key to value with the timeout
_reset_flag(s, key, version, timeout, value, t) ==
    cache_set(s, make_key(FlagKey(key), version), value, timeout, t)

set_default_timeout(s, key, value, stale_at, version, timeout, t) ==
    cache_set(s, make_key(DataKey(key), version),
              Packed(value, IF stale_at = NoneT THEN t + Stale ELSE stale_at),
              NoneT, t)
\* JCache.set: timeout None -> self.expiry, stale_at None -> now + self.stale
set(s, key, value, stale_at, version, timeout, t) ==
    cache_set(s, make_key(DataKey(key), version),
              Packed(value, IF stale_at = NoneT THEN t + Stale ELSE stale_at),
              IF timeout = NoneT THEN Expiry ELSE timeout, t)

\* JCache.delete: deletes the key as given
delete(s, key, version) == cache_delete(s, make_key(key, version))

IsStale_le(stale_at, t) == stale_at <= t
\* get, line 145: the entry is stale
IsStale(stale_at, t) == stale_at < t

NotExpired_ge(expires_at, t) == expires_at = NoneT \/ expires_at >= t
\* invoke_async, line 24: the invocation is still wanted
NotExpired(expires_at, t) == expires_at = NoneT \/ expires_at > t

FlagKeys == {make_key(FlagKey(k), v) : k \in Keys, v \in Versions}

\* the flag value as a number, 0 when the key is absent
FlagValue(key, version) ==
    IF Has(store, make_key(FlagKey(key), version))
    THEN store[make_key(FlagKey(key), version)].val
    ELSE 0

----------------------------------------------------------------------------
(* Frames and tasks *)

\* the last write of a key's entry: when, and the value written
NoWrite == [at |-> NoneT, value |-> None]

Idle ==
    [pc |-> "idle", op |-> "none", key |-> "", version |-> "", stale |-> NoneT,
     generator |-> None, wait_on_generate |-> FALSE, async_wait_on_generate |-> FALSE,
     now |-> 0, packed |-> NoPacked, generate |-> FALSE, flag |-> 0,
     do_decr |-> FALSE, value |-> None, async_result |-> 0, expires_at |-> NoneT,
     ivalue |-> None, exc |-> None, lazy |-> "none", wrapped |-> None,
     \* history of the call
     incrs |-> 0, decrs |-> 0, ran |-> 0, wrote |-> FALSE, dispatched |-> 0,
     quiet |-> FALSE, overlap |-> FALSE, afterDelete |-> FALSE,
     reset |-> FALSE, absent |-> FALSE, written |-> NoWrite, forced |-> 0]

\* task ids are call numbers
TaskIds == DOMAIN tasks

\* the regenerations of key in flight: invoke_async tasks dispatched with a
\* generator and not finished, and generators running inline in a caller
TasksInFlight(key) ==
    {t \in TaskIds : tasks[t].key = key /\ tasks[t].st # "done"
                     /\ tasks[t].generator # None}
InlineRunning(key) == {p \in Procs : c[p].key = key /\ c[p].pc = "inl_gen"}
InFlight(key) == Cardinality(TasksInFlight(key)) + Cardinality(InlineRunning(key))

AddTask(tid, task) ==
    [x \in DOMAIN tasks \cup {tid} |-> IF x = tid THEN task ELSE tasks[x]]

DropTask(tid) == [x \in DOMAIN tasks \ {tid} |-> tasks[x]]

\* the empty cache and the empty queue
Empty == [x \in {} |-> 0]

\* The backend outlives the JCache object: at the start it holds no entry
\* for a key, or an entry written by an earlier process, fresh (written
\* now) or stale (written Stale + 1 seconds ago).
InitWritten == {0, 0 - (Stale + 1)}
InitEntries ==
    {Empty} \cup
    {set(Empty, k, "initial", NoneT, v, NoneT, t) :
        k \in Keys, v \in Versions, t \in InitWritten}

\* The flag of a key is absent at the start, or earlier calls left it at
\* 1 (a holder that never released it: a lazy result nobody resolved, a
\* worker that died) or at -1 (one release too many)
InitFlagValues == {1, 0 - 1}
InitStores ==
    InitEntries \cup
    {_reset_flag(s, k, v, FlagTimeout(NoneT), n, 0) :
        s \in InitEntries, k \in Keys, v \in Versions, n \in InitFlagValues}

\* when the entry the backend holds for key at the start was written
InitWrite(s, key) ==
    LET packed == ReadPacked(s, key, CHOOSE v \in Versions : TRUE)
    IN IF packed.some THEN [at |-> packed.stale_at - Stale, value |-> packed.value]
       ELSE NoWrite

Init ==
    /\ store \in InitStores
    /\ now = 0
    /\ c = [p \in Procs |-> Idle]
    /\ tasks = Empty
    /\ hist = [calls |-> 0, tids |-> 0, gens |-> 0, fails |-> 0,
               skips |-> 0, lazies |-> 0, flagLost |-> FALSE, deleted |-> {},
               clean |-> \A bk \in FlagKeys : ~Has(store, bk),
               negative |-> \E bk \in FlagKeys : Has(store, bk) /\ store[bk].val < 0,
               lastWrite |-> [k \in Keys |-> InitWrite(store, k)]]

----------------------------------------------------------------------------
(* JCache.get *)

\* the argument combinations of get that differ in behaviour
GetArgs ==
    {a \in [generator : {None} \cup Generators, wait_on_generate : BOOLEAN,
            async_wait_on_generate : BOOLEAN] :
        /\ a.generator = None => ~a.async_wait_on_generate
        /\ lazy_result(a.generator) => a.wait_on_generate}

\* the other callers are all inside a call
OthersActive(p) == \A q \in Procs \ {p} : c[q].pc \notin {"idle", "done"}

\* a caller can make a call when its last one has returned; callers make
\* their first calls in the order of ProcSeq
CanCall(p) ==
    /\ c[p].pc \in {"idle", "done"}
    /\ hist.calls < MaxCalls
    /\ \A i \in 2..Len(ProcSeq) : ProcSeq[i] = p => c[ProcSeq[i - 1]].op # "none"

\* the caller drops the result of its last call: the result of a task
\* nobody will ask for is forgotten
Dropped(p) ==
    LET t == c[p].async_result
    IN IF t \in DOMAIN tasks /\ tasks[t].awaited
       THEN IF tasks[t].st = "done" THEN DropTask(t)
            ELSE [tasks EXCEPT ![t].awaited = FALSE]
       ELSE tasks

\* lines 115-124: the call starts; now = time.time()
get_start(p) ==
    /\ CanCall(p)
    /\ \E key \in Keys, version \in Versions, stale \in StaleArgs, a \in GetArgs :
          c' = [c EXCEPT ![p] =
                  [Idle EXCEPT !.pc = "get_read", !.op = "get", !.key = key,
                               !.version = version, !.stale = stale,
                               !.generator = a.generator,
                               !.wait_on_generate = a.wait_on_generate,
                               !.async_wait_on_generate = a.async_wait_on_generate,
                               !.now = now, !.overlap = OthersActive(p),
                               !.afterDelete = key \in hist.deleted]]
    /\ hist' = [hist EXCEPT !.calls = @ + 1]
    /\ tasks' = Dropped(p)
    /\ UNCHANGED <<store, now>>

WantGenerate_missing(packed, generator, t) ==
    IF ~packed.some THEN TRUE
    ELSE IsStale(packed.stale_at, t) /\ generator # None
\* lines 133-146: whether regeneration is wanted, from the entry read
WantGenerate(packed, generator, t) ==
    IF ~packed.some THEN generator # None
    ELSE IsStale(packed.stale_at, t) /\ generator # None

\* lines 126-151: read the entry; without regeneration the call returns here
get_read(p) ==
    /\ c[p].pc = "get_read"
    /\ LET f == c[p]
           packed == ReadPacked(store, f.key, f.version)
           generate == WantGenerate(packed, f.generator, f.now)
       IN c' = [c EXCEPT ![p] =
                  [f EXCEPT !.packed = packed, !.generate = generate,
                            !.flag = IF ~packed.some /\ f.wait_on_generate THEN 1 ELSE 0,
                            !.value = packed.value,
                            !.afterDelete = @ /\ f.key \in hist.deleted,
                            !.written = hist.lastWrite[f.key],
                            !.pc = IF generate THEN "get_incr" ELSE "done"]]
    /\ UNCHANGED <<store, now, tasks, hist>>

\* lines 153-156 after _incr_flag returned flag: a flag below 1 is reset
AfterIncr(flag) == IF flag < 1 THEN "get_reset" ELSE "get_elect"

\* line 152 and _incr_flag, line 203: self._cache.incr on the flag key; a
\* missing key raises ValueError, caught at line 204
get_incr(p) ==
    /\ c[p].pc = "get_incr"
    /\ LET f == c[p]
           bk == make_key(FlagKey(f.key), f.version)
       IN IF Has(store, bk)
          THEN /\ store' = cache_incr(store, bk, 1)
               /\ c' = [c EXCEPT ![p] =
                          [f EXCEPT !.flag = store[bk].val + 1, !.do_decr = TRUE,
                                    !.incrs = @ + 1, !.quiet = InFlight(f.key) = 0,
                                    !.pc = AfterIncr(store[bk].val + 1)]]
          ELSE /\ c' = [c EXCEPT ![p].pc = "get_incr_seed", ![p].absent = TRUE]
               /\ UNCHANGED store
    /\ UNCHANGED <<now, tasks, hist>>

\* _incr_flag, line 205: seed the flag with 1
get_incr_seed(p) ==
    /\ c[p].pc = "get_incr_seed"
    /\ LET f == c[p]
       IN /\ store' = _reset_flag(store, f.key, f.version, FlagTimeout(f.stale), 1, now)
          /\ c' = [c EXCEPT ![p] =
                     [f EXCEPT !.flag = 1, !.do_decr = TRUE, !.incrs = @ + 1,
                               !.quiet = InFlight(f.key) = 0, !.pc = AfterIncr(1)]]
    /\ UNCHANGED <<now, tasks, hist>>

\* line 156: the flag was below 1 after the increment: reset it to 1
get_reset(p) ==
    /\ c[p].pc = "get_reset"
    /\ LET f == c[p]
       IN /\ store' = _reset_flag(store, f.key, f.version, FlagTimeout(f.stale), 1, now)
          /\ c' = [c EXCEPT ![p] =
                     [f EXCEPT !.flag = 1, !.quiet = InFlight(f.key) = 0,
                               !.reset = TRUE, !.pc = "get_elect"]]
    /\ UNCHANGED <<now, tasks, hist>>

Elected_held(generate, flag) == generate /\ flag >= 1
Elected_any(generate, flag) == generate
\* line 161: only the caller whose flag is 1 regenerates
Elected(generate, flag) == generate /\ flag = 1

\* line 174: the invocation goes to Celery
AsyncDesired(wait_on_generate, async_wait_on_generate) ==
    ~wait_on_generate \/ (wait_on_generate /\ async_wait_on_generate)

Blocks_any(wait_on_generate, packed) == wait_on_generate
\* line 180: the caller waits for the value
Blocks(wait_on_generate, packed) == wait_on_generate /\ ~packed.some

CallsResultFunc_eager(block, lazy) == block
\* lines 191-194: get calls result_func() itself unless the generator asks
\* for a lazy result
CallsResultFunc(block, lazy) == block /\ ~lazy

DoDecr_dispatched(dispatch, inline) == ~inline
DoDecr_inline(dispatch, inline) == ~dispatch
\* do_decr when get reaches its finally clause: set at line 153, cleared at
\* line 175 (the task decrements) and at line 188 (the inline call decrements)
DoDecr(dispatch, inline) == ~dispatch /\ ~inline

\* lines 195-197: the finally clause decrements the flag if do_decr is set
Finally(do_decr) == IF do_decr THEN "get_decr" ELSE "done"

\* a new invoke_async task on the queue (apply_async, lines 177 and 245)
NewTask(f, expires_at, awaited) ==
    [key |-> f.key, version |-> f.version, generator |-> f.generator,
     stale |-> f.stale, expires_at |-> expires_at, st |-> "queued",
     value |-> None, exc |-> None, awaited |-> awaited,
     op |-> f.op, wait_on_generate |-> f.wait_on_generate,
     \* history of the invocation
     late |-> FALSE, ran |-> FALSE, wrote |-> FALSE, decrs |-> 0]

\* lines 161-194: the elected caller dispatches and/or waits; everyone else,
\* and the caller who does not wait, goes to the finally clause
get_elect(p) ==
    /\ c[p].pc = "get_elect"
    /\ LET f == c[p]
           elected == Elected(f.generate, f.flag)
           expires_at == now + EffStale(f.stale)
           dispatch == elected /\ AsyncDesired(f.wait_on_generate, f.async_wait_on_generate)
           block == elected /\ Blocks(f.wait_on_generate, f.packed)
           inline == block /\ ~dispatch
           lazy == block /\ lazy_result(f.generator)
           do_decr == DoDecr(dispatch, inline)
           tid == hist.tids + 1
           g == [f EXCEPT !.do_decr = do_decr,
                          !.expires_at = IF elected THEN expires_at ELSE NoneT,
                          !.async_result = IF dispatch THEN tid ELSE 0,
                          !.dispatched = IF dispatch THEN 1 ELSE 0]
       IN /\ tasks' = IF dispatch THEN AddTask(tid, NewTask(f, expires_at, block))
                       ELSE tasks
          /\ hist' = [hist EXCEPT !.tids = IF dispatch THEN tid ELSE @,
                                  !.lazies = IF lazy THEN @ + 1 ELSE @]
          /\ c' = [c EXCEPT ![p] =
                [g EXCEPT !.value = IF lazy THEN "lazy" ELSE @,
                          !.lazy = IF lazy THEN "unforced" ELSE @,
                          !.pc = IF CallsResultFunc(block, lazy)
                                 THEN (IF dispatch THEN "get_await" ELSE "inl_start")
                                 ELSE Finally(do_decr)]]
    /\ UNCHANGED <<store, now>>

\* the result of result_func() goes to value (line 194), and get goes on to
\* its finally clause, or into the lazy object (line 192, when it is
\* resolved, get having returned)
WithResult(f, result, exc) ==
    IF exc # None THEN [f EXCEPT !.exc = exc, !.pc = Finally(f.do_decr)]
    ELSE IF f.lazy = "unforced"
         THEN [f EXCEPT !.wrapped = result, !.lazy = "resolved", !.pc = "done"]
         ELSE [f EXCEPT !.value = result, !.pc = Finally(f.do_decr)]

\* line 186: async_result.get(propogate=True).  The keyword is misspelt:
\* a result class that does not take it raises TypeError at once, one that
\* takes any keyword waits for the task and, propagate being True by
\* default, re-raises the task's exception
get_await(p) ==
    /\ c[p].pc = "get_await"
    /\ LET f == c[p]
           t == f.async_result
       IN \/ c' = [c EXCEPT ![p] = WithResult(f, None, "TypeError")]
          \/ /\ tasks[t].st = "done"
             /\ c' = [c EXCEPT ![p] = WithResult(f, tasks[t].value, tasks[t].exc)]
    /\ UNCHANGED <<store, now, tasks, hist>>

----------------------------------------------------------------------------
(* invoke_async, called in the caller's thread (line 189) *)

\* what generator(*args, **kwargs) does at line 27: it returns a value or
\* raises; calling None raises TypeError
GenOutcomes(generator) ==
    IF generator = None THEN {"TypeError"} ELSE {None, "Exception"}

\* line 24: past expires_at the generator is not called
inl_start(p) ==
    /\ c[p].pc = "inl_start"
    /\ IF NotExpired(c[p].expires_at, now)
       THEN /\ c' = [c EXCEPT ![p].pc = "inl_gen", ![p].ran = @ + 1,
                              ![p].exc = None, ![p].ivalue = None]
            /\ hist' = [hist EXCEPT !.gens = @ + 1]
       ELSE /\ c' = [c EXCEPT ![p].pc = "inl_decr", ![p].exc = None,
                              ![p].ivalue = None]
            /\ hist' = [hist EXCEPT !.skips = @ + 1]
    /\ UNCHANGED <<store, now, tasks>>

\* lines 27-38: the generator returns and the entry is written, or it raises
inl_gen(p) ==
    /\ c[p].pc = "inl_gen"
    /\ LET f == c[p]
       IN \E out \in GenOutcomes(f.generator) :
            IF out = None
            THEN /\ store' = set(store, f.key, "result", now + EffStale(f.stale),
                                 f.version, Expiry, now)
                 /\ c' = [c EXCEPT ![p].ivalue = "result", ![p].wrote = TRUE,
                                   ![p].pc = "inl_decr"]
                 /\ hist' = [hist EXCEPT !.deleted = @ \ {f.key},
                                         !.lastWrite[f.key] = [at |-> now, value |-> "result"]]
            ELSE /\ c' = [c EXCEPT ![p].exc = out, ![p].pc = "inl_decr"]
                 /\ hist' = [hist EXCEPT !.fails = @ + 1]
                 /\ UNCHANGED store
    /\ UNCHANGED <<now, tasks>>

\* line 42 and _decr_flag, line 209: self._cache.decr on the flag key; a
\* missing key raises ValueError, caught at line 210.  Then invoke_async
\* returns value (line 44) or the generator's exception goes on
inl_decr(p) ==
    /\ c[p].pc = "inl_decr"
    /\ LET f == c[p]
           bk == make_key(FlagKey(f.key), f.version)
       IN IF Has(store, bk)
          THEN /\ store' = cache_incr(store, bk, 0 - 1)
               /\ c' = [c EXCEPT ![p] =
                          WithResult([f EXCEPT !.decrs = @ + 1], f.ivalue, f.exc)]
          ELSE /\ c' = [c EXCEPT ![p].pc = "inl_decr_seed"]
               /\ UNCHANGED store
    /\ UNCHANGED <<now, tasks, hist>>

\* _decr_flag, line 211: seed the flag with 0
inl_decr_seed(p) ==
    /\ c[p].pc = "inl_decr_seed"
    /\ LET f == c[p]
       IN /\ store' = _reset_flag(store, f.key, f.version, FlagTimeout(f.stale), 0, now)
          /\ c' = [c EXCEPT ![p] =
                     WithResult([f EXCEPT !.decrs = @ + 1], f.ivalue, f.exc)]
    /\ UNCHANGED <<now, tasks, hist>>

----------------------------------------------------------------------------
(* the finally clause of get, lines 195-197, and the return *)

get_decr(p) ==
    /\ c[p].pc = "get_decr"
    /\ LET f == c[p]
           bk == make_key(FlagKey(f.key), f.version)
       IN IF Has(store, bk)
          THEN /\ store' = cache_incr(store, bk, 0 - 1)
               /\ c' = [c EXCEPT ![p].decrs = @ + 1, ![p].pc = "done"]
          ELSE /\ c' = [c EXCEPT ![p].pc = "get_decr_seed"]
               /\ UNCHANGED store
    /\ UNCHANGED <<now, tasks, hist>>

get_decr_seed(p) ==
    /\ c[p].pc = "get_decr_seed"
    /\ LET f == c[p]
       IN /\ store' = _reset_flag(store, f.key, f.version, FlagTimeout(f.stale), 0, now)
          /\ c' = [c EXCEPT ![p].decrs = @ + 1, ![p].pc = "done"]
    /\ UNCHANGED <<now, tasks, hist>>

\* the caller resolves the SimpleLazyObject it got (line 192): result_func
\* runs, awaiting the task or calling invoke_async in this thread.  A
\* resolved object keeps its value; one whose result_func raised runs it
\* again when resolved again
force(p) ==
    /\ c[p].pc = "done"
    /\ \/ /\ c[p].lazy = "unforced"
          /\ hist.calls < MaxCalls
          /\ c' = [c EXCEPT ![p].exc = None, ![p].do_decr = FALSE,
                            ![p].forced = 1,
                            ![p].pc = IF c[p].async_result # 0 THEN "get_await"
                                      ELSE "inl_start"]
          /\ hist' = [hist EXCEPT !.calls = @ + 1]
       \/ /\ c[p].lazy = "resolved"
          /\ c[p].forced < MaxForce
          /\ c' = [c EXCEPT ![p].forced = @ + 1]
          /\ UNCHANGED hist
    /\ UNCHANGED <<store, now, tasks>>

----------------------------------------------------------------------------
(* invoke_async, run by a Celery worker *)

\* the task ends, having decremented the flag: its result is kept while the
\* dispatching call may ask for it
Finished(t) ==
    IF tasks[t].awaited
    THEN [tasks EXCEPT ![t].st = "done", ![t].decrs = @ + 1]
    ELSE DropTask(t)

\* the deadline of an invocation has passed on the clock
Late(expires_at) == expires_at # NoneT /\ now >= expires_at

\* line 24
task_start(t) ==
    /\ tasks[t].st = "queued"
    /\ IF NotExpired(tasks[t].expires_at, now)
       THEN /\ tasks' = [tasks EXCEPT ![t].st = "running", ![t].ran = TRUE,
                                      ![t].late = Late(tasks[t].expires_at)]
            /\ hist' = [hist EXCEPT !.gens = @ + 1]
       ELSE /\ tasks' = [tasks EXCEPT ![t].st = "decr",
                                      ![t].late = Late(tasks[t].expires_at)]
            /\ hist' = [hist EXCEPT !.skips = @ + 1]
    /\ UNCHANGED <<store, now, c>>

\* lines 27-38
task_gen(t) ==
    /\ tasks[t].st = "running"
    /\ LET f == tasks[t]
       IN \E out \in GenOutcomes(f.generator) :
            IF out = None
            THEN /\ store' = set(store, f.key, "result", now + EffStale(f.stale),
                                 f.version, Expiry, now)
                 /\ tasks' = [tasks EXCEPT ![t].value = "result", ![t].st = "decr",
                                           ![t].wrote = TRUE]
                 /\ hist' = [hist EXCEPT !.deleted = @ \ {f.key},
                                         !.lastWrite[f.key] = [at |-> now, value |-> "result"]]
            ELSE /\ tasks' = [tasks EXCEPT ![t].exc = out, ![t].st = "decr"]
                 /\ hist' = [hist EXCEPT !.fails = @ + 1]
                 /\ UNCHANGED store
    /\ UNCHANGED <<now, c>>

\* line 42 and _decr_flag, line 209
task_decr(t) ==
    /\ tasks[t].st = "decr"
    /\ LET f == tasks[t]
           bk == make_key(FlagKey(f.key), f.version)
       IN IF Has(store, bk)
          THEN /\ store' = cache_incr(store, bk, 0 - 1)
               /\ tasks' = Finished(t)
          ELSE /\ tasks' = [tasks EXCEPT ![t].st = "decr_seed"]
               /\ UNCHANGED store
    /\ UNCHANGED <<now, c, hist>>

\* _decr_flag, line 211
task_decr_seed(t) ==
    /\ tasks[t].st = "decr_seed"
    /\ LET f == tasks[t]
       IN store' = _reset_flag(store, f.key, f.version, FlagTimeout(f.stale), 0, now)
    /\ tasks' = Finished(t)
    /\ UNCHANGED <<now, c, hist>>

----------------------------------------------------------------------------
(* JCache.freshen *)

\* line 238 after _incr_flag returned flag
AfterFreshenIncr(flag) == IF flag > 1 THEN "fr_decr" ELSE "fr_reset"

\* line 236 and _incr_flag, line 203
freshen_start(p) ==
    /\ CanCall(p)
    /\ \E key \in Keys, version \in Versions, stale \in StaleArgs,
          generator \in {None, "G"} :
         LET f == [Idle EXCEPT !.op = "freshen", !.key = key, !.version = version,
                               !.stale = stale, !.generator = generator,
                               !.overlap = OthersActive(p)]
             bk == make_key(FlagKey(key), version)
         IN IF Has(store, bk)
            THEN /\ store' = cache_incr(store, bk, 1)
                 /\ c' = [c EXCEPT ![p] =
                            [f EXCEPT !.flag = store[bk].val + 1, !.incrs = 1,
                                      !.quiet = InFlight(key) = 0,
                                      !.pc = AfterFreshenIncr(store[bk].val + 1)]]
            ELSE /\ c' = [c EXCEPT ![p] = [f EXCEPT !.pc = "fr_incr_seed"]]
                 /\ UNCHANGED store
    /\ hist' = [hist EXCEPT !.calls = @ + 1]
    /\ tasks' = Dropped(p)
    /\ UNCHANGED now

\* _incr_flag, line 205
freshen_incr_seed(p) ==
    /\ c[p].pc = "fr_incr_seed"
    /\ LET f == c[p]
       IN /\ store' = _reset_flag(store, f.key, f.version, FlagTimeout(f.stale), 1, now)
          /\ c' = [c EXCEPT ![p] =
                     [f EXCEPT !.flag = 1, !.incrs = 1, !.quiet = InFlight(f.key) = 0,
                               !.pc = AfterFreshenIncr(1)]]
    /\ UNCHANGED <<now, tasks, hist>>

\* line 239: _decr_flag(key, version), without a timeout; flag stays above 1
\* and freshen returns None
freshen_decr(p) ==
    /\ c[p].pc = "fr_decr"
    /\ LET f == c[p]
           bk == make_key(FlagKey(f.key), f.version)
       IN IF Has(store, bk)
          THEN /\ store' = cache_incr(store, bk, 0 - 1)
               /\ c' = [c EXCEPT ![p].decrs = @ + 1, ![p].pc = "done"]
          ELSE /\ c' = [c EXCEPT ![p].pc = "fr_decr_seed"]
               /\ UNCHANGED store
    /\ UNCHANGED <<now, tasks, hist>>

\* _decr_flag, line 211, with timeout None
freshen_decr_seed(p) ==
    /\ c[p].pc = "fr_decr_seed"
    /\ LET f == c[p]
       IN /\ store' = _reset_flag(store, f.key, f.version, NoneT, 0, now)
          /\ c' = [c EXCEPT ![p].decrs = @ + 1, ![p].pc = "done"]
    /\ UNCHANGED <<now, tasks, hist>>

\* line 242: the flag is set to 1 whatever it was
freshen_reset(p) ==
    /\ c[p].pc = "fr_reset"
    /\ LET f == c[p]
       IN /\ store' = _reset_flag(store, f.key, f.version, FlagTimeout(f.stale), 1, now)
          /\ c' = [c EXCEPT ![p].flag = 1, ![p].pc = "fr_dispatch"]
    /\ UNCHANGED <<now, tasks, hist>>

\* lines 244-247: flag is 1 here; the task is dispatched and its AsyncResult
\* returned
freshen_dispatch(p) ==
    /\ c[p].pc = "fr_dispatch"
    /\ LET f == c[p]
           tid == hist.tids + 1
       IN /\ tasks' = AddTask(tid, NewTask(f, now + EffStale(f.stale), FALSE))
          /\ hist' = [hist EXCEPT !.tids = tid]
          /\ c' = [c EXCEPT ![p].async_result = tid, ![p].dispatched = 1,
                            ![p].value = "AsyncResult", ![p].pc = "done"]
    /\ UNCHANGED <<store, now>>

----------------------------------------------------------------------------
(* JCache.set, JCache.delete, JCache.clear: one backend call each *)

\* names callers pass to delete: a cache key, or the backend name of its entry
DeleteArgs == Keys \cup {DataKey(k) : k \in Keys}

\* jcache.set(key, value): lines 217-233
set_call ==
    /\ hist.calls < MaxCalls
    /\ \E key \in Keys, version \in Versions :
         /\ store' = set(store, key, "initial", NoneT, version, NoneT, now)
         /\ hist' = [hist EXCEPT !.calls = @ + 1, !.deleted = @ \ {key},
                                 !.lastWrite[key] = [at |-> now, value |-> "initial"]]
    /\ UNCHANGED <<now, c, tasks>>

\* jcache.delete(key, version): lines 249-250
delete_call ==
    /\ hist.calls < MaxCalls
    /\ \E key \in DeleteArgs, version \in Versions :
         /\ store' = delete(store, key, version)
         /\ hist' = [hist EXCEPT !.calls = @ + 1, !.deleted = @ \cup ({key} \cap Keys),
                                 !.lastWrite = [k \in Keys |->
                                     IF key = DataKey(k) THEN NoWrite ELSE @[k]]]
    /\ UNCHANGED <<now, c, tasks>>

\* jcache.clear(): lines 252-253; the flags go with the entries
clear ==
    /\ hist.calls < MaxCalls
    /\ store' = Empty
    /\ hist' = [hist EXCEPT !.calls = @ + 1,
                            !.flagLost = @ \/ \E bk \in FlagKeys : Has(store, bk),
                            !.lastWrite = [k \in Keys |-> NoWrite]]
    /\ UNCHANGED <<now, c, tasks>>

----------------------------------------------------------------------------
(* time *)

\* a second passes; the backend forgets the entries whose timeout elapsed
Slow(p) == c[p].pc \in {"idle", "done", "get_await", "inl_gen"}
tick ==
    /\ now < MaxTime
    /\ \A p \in Procs : Slow(p)
    /\ \A t \in TaskIds : tasks[t].st \in {"queued", "running", "done"}
    /\ now' = now + 1
    /\ store' = Unexpired(store, now + 1)
    /\ hist' = [hist EXCEPT !.flagLost =
                  @ \/ \E bk \in FlagKeys : Has(store, bk) /\ store[bk].exp <= now + 1]
    /\ UNCHANGED <<c, tasks>>

Next ==
    \/ \E p \in Procs :
         \/ get_start(p) \/ get_read(p) \/ get_incr(p) \/ get_incr_seed(p)
         \/ get_reset(p) \/ get_elect(p) \/ get_await(p)
         \/ inl_start(p) \/ inl_gen(p) \/ inl_decr(p) \/ inl_decr_seed(p)
         \/ get_decr(p) \/ get_decr_seed(p) \/ force(p)
         \/ freshen_start(p) \/ freshen_incr_seed(p) \/ freshen_decr(p)
         \/ freshen_decr_seed(p) \/ freshen_reset(p) \/ freshen_dispatch(p)
    \/ \E t \in TaskIds :
         task_start(t) \/ task_gen(t) \/ task_decr(t) \/ task_decr_seed(t)
    \/ set_call \/ delete_call \/ clear
    \/ tick

Spec == Init /\ [][Next]_vars

----------------------------------------------------------------------------
(* Properties *)

Done(p) == c[p].pc = "done"
GetDone(p) == Done(p) /\ c[p].op = "get"
\* no caller is inside a call and no task is on the queue or running
Quiescent ==
    /\ \A p \in Procs : c[p].pc \in {"idle", "done"}
    /\ \A t \in TaskIds : tasks[t].st = "done"
\* the flag was absent at the start and was not lost since (timeout, clear)
FlagKept == hist.clean /\ ~hist.flagLost
\* the entry p read was fresh / stale, by the time p took at line 124
ReadFresh(p) == c[p].packed.some /\ c[p].packed.stale_at >= c[p].now
ReadStale(p) == c[p].packed.some /\ c[p].packed.stale_at < c[p].now
ReadMissing(p) == ~c[p].packed.some
\* p's call is past the read of line 126
HasRead(p) == c[p].op = "get" /\ c[p].pc \notin {"idle", "get_read"}

\* C1: for one key at most one generator execution is in flight (task
\* dispatched and not finished, or generator running inline) at any time,
\* starting from an absent flag and as long as the flag is not lost.
C1_SingleFlight ==
    FlagKept => \A k \in Keys : InFlight(k) <= 1

\* C2: when every caller calls get concurrently on the same missing key with
\* the same generator (here G, with the default async_wait_on_generate), then
\* once all calls have returned and all tasks have finished, none of them
\* too late to run, the generator was invoked exactly once in total and no
\* call raised.
C2_Scenario ==
    /\ FlagKept /\ Quiescent /\ hist.fails = 0 /\ hist.skips = 0
    /\ hist.calls = Cardinality(Procs)
    /\ \A p \in Procs :
         /\ GetDone(p) /\ c[p].generator = "G" /\ ReadMissing(p)
         /\ ~c[p].async_wait_on_generate
    /\ \E p \in Procs : c[p].overlap
C2_ExactlyOneInvocation ==
    C2_Scenario => hist.gens = 1 /\ \A p \in Procs : c[p].exc = None

\* C3: a get with a generator and wait_on_generate=True (async_wait_on_generate
\* False) that reads a stale entry returns the old value and has a
\* regeneration of the key dispatched to the background.
C3_Scenario(p) ==
    /\ GetDone(p) /\ c[p].generator # None /\ ReadStale(p)
    /\ c[p].wait_on_generate /\ ~c[p].async_wait_on_generate
    /\ FlagKept /\ hist.calls = 1
C3_StaleWaitRegenerates ==
    \A p \in Procs :
        C3_Scenario(p) => c[p].value = c[p].packed.value /\ hist.tids = 1

\* C4: every increment of the flag is matched by exactly one decrement, so
\* that when all calls have returned, all dispatched invocations have
\* finished (no lazy result being involved), the flag counter is 0
\* (starting from an absent flag, the flag not being lost).
C4_Scenario == FlagKept /\ Quiescent /\ hist.lazies = 0
C4_FlagBackToZero ==
    C4_Scenario => \A k \in Keys, v \in Versions : FlagValue(k, v) = 0

\* C5: a get that reads a fresh entry (stale_at >= now) returns the stored
\* value at once: it does not touch the flag, does not run the generator and
\* dispatches nothing, whatever its arguments and whatever runs concurrently.
C5_FreshServed ==
    \A p \in Procs :
        HasRead(p) /\ ReadFresh(p) =>
            /\ Done(p) /\ c[p].exc = None
            /\ c[p].value = c[p].packed.value
            /\ c[p].ran = 0 /\ c[p].dispatched = 0 /\ c[p].async_result = 0
            /\ c[p].incrs = 0 /\ c[p].decrs = 0
C5_Witness ==
    \E p \in Procs :
        /\ GetDone(p) /\ ReadFresh(p) /\ c[p].packed.stale_at = c[p].now
        /\ c[p].generator # None /\ c[p].wait_on_generate
        /\ c[p].value = "initial"
        /\ \E q \in Procs \ {p} : c[q].pc = "get_elect"

\* C6 (as stated): a non-blocking get with a generator on a stale or missing
\* entry returns what it read, never runs the generator itself and, when no
\* other regeneration of the key is in flight when it increments the flag
\* (which was absent at the start and was not lost), dispatches exactly one
\* task.
C6_Scenario(p) ==
    /\ GetDone(p) /\ c[p].generator # None /\ ~c[p].wait_on_generate
    /\ ~ReadFresh(p)
C6_Original ==
    \A p \in Procs :
        C6_Scenario(p) /\ FlagKept =>
            /\ c[p].value = c[p].packed.value /\ c[p].ran = 0
            /\ c[p].quiet => c[p].dispatched = 1

\* C6 (amended): a non-blocking get with a generator on a stale or missing
\* entry returns what it read without an exception, never runs the generator
\* itself, and dispatches exactly one task when its own flag increment (after
\* seeding or reset) yields 1, and none otherwise.
C6_NonBlocking ==
    \A p \in Procs :
        C6_Scenario(p) =>
            /\ c[p].value = c[p].packed.value /\ c[p].ran = 0 /\ c[p].exc = None
            /\ c[p].dispatched = (IF c[p].flag = 1 THEN 1 ELSE 0)
            /\ c[p].dispatched = 1 <=> c[p].async_result # 0
C6_Witness ==
    \E p \in Procs :
        /\ C6_Scenario(p) /\ ReadStale(p) /\ c[p].flag = 1 /\ c[p].dispatched = 1
        /\ c[p].value = "initial"
        /\ \E t \in TaskIds : tasks[t].st = "queued"
        /\ \E q \in Procs \ {p} : C6_Scenario(q) /\ c[q].flag = 2 /\ c[q].dispatched = 0

\* C7: a get with generator G (no lazy_result) and wait_on_generate=True that
\* reads no entry returns the generated value, never None, when the generator
\* has run and has not failed.
C7_WaitReturnsValue ==
    \A p \in Procs :
        ( /\ GetDone(p) /\ c[p].generator = "G" /\ c[p].wait_on_generate
          /\ ReadMissing(p) /\ c[p].exc = None
          /\ FlagKept /\ hist.gens >= 1 /\ hist.fails = 0 )
        => c[p].value # None

\* C8: a get of a key without a generator that starts after delete(key,
\* version), the entry not being written again before it is read, returns
\* None.
C8_DeleteRemoves ==
    \A p \in Procs :
        GetDone(p) /\ c[p].generator = None /\ c[p].afterDelete
            => c[p].value = None

\* C9: when the only call is a non-blocking get whose dispatched invocation
\* raises, the get returns without an exception, the flag is 1 from the
\* dispatch until the invocation has run (unless the flag's timeout elapses
\* first), it is 0 or absent afterwards, and the entry is as the get read it,
\* or expired.
C9_Scenario(p) ==
    /\ hist.calls = 1 /\ c[p].op = "get" /\ c[p].generator # None
    /\ ~c[p].wait_on_generate /\ c[p].dispatched = 1
C9_AsyncFailure ==
    \A p \in Procs :
        C9_Scenario(p) =>
            /\ Done(p) /\ c[p].exc = None
            /\ (TaskIds # {} /\ ~hist.flagLost) =>
                   FlagValue(c[p].key, c[p].version) = 1
            /\ (TaskIds = {} /\ hist.fails = 1) =>
                   /\ FlagValue(c[p].key, c[p].version) = 0
                   /\ ReadPacked(store, c[p].key, c[p].version)
                         \in {c[p].packed, NoPacked}
C9_Witness ==
    \E p \in Procs :
        /\ C9_Scenario(p) /\ TaskIds = {} /\ hist.fails = 1
        /\ ReadStale(p) /\ ReadPacked(store, c[p].key, c[p].version) = c[p].packed
        /\ Has(store, make_key(FlagKey(c[p].key), c[p].version))
        /\ FlagValue(c[p].key, c[p].version) = 0

\* C10: when the generator raises on the inline path (get with
\* wait_on_generate=True on a missing key, nothing dispatched, no lazy
\* result), the generator's exception reaches the caller of get, the flag
\* increment of the call is released exactly once and no entry is written.
C10_Scenario(p) ==
    /\ GetDone(p) /\ c[p].wait_on_generate /\ ReadMissing(p)
    /\ c[p].lazy = "none" /\ c[p].dispatched = 0 /\ c[p].ran >= 1
C10_InlineFailure ==
    \A p \in Procs :
        C10_Scenario(p) /\ c[p].ivalue = None =>
            /\ c[p].exc = "Exception" /\ c[p].ran = 1
            /\ c[p].incrs = 1 /\ c[p].decrs = 1
            /\ ~c[p].wrote /\ c[p].value = None
C10_Witness ==
    \E p \in Procs :
        /\ C10_Scenario(p) /\ c[p].exc = "Exception" /\ c[p].decrs = 1
        /\ ReadPacked(store, c[p].key, c[p].version) = NoPacked
        /\ FlagValue(c[p].key, c[p].version) = 0

\* C11: when the flag of a key is negative and nothing is in flight, the next
\* get with a generator on a stale or missing entry (here the only call, no
\* lazy result, the flag not lost and the invocation not too late to run)
\* resets the flag to 1 and is the regenerator, and once it has returned and
\* every task has finished the generator has been invoked exactly once.
C11_Scenario(p) ==
    /\ hist.negative /\ ~hist.flagLost /\ hist.calls = 1
    /\ GetDone(p) /\ c[p].generate /\ c[p].quiet
    /\ Quiescent /\ hist.skips = 0 /\ hist.lazies = 0
C11_NegativeFlagRecovery ==
    \A p \in Procs :
        C11_Scenario(p) =>
            /\ c[p].reset /\ c[p].flag = 1 /\ c[p].exc # "ValueError"
            /\ hist.gens = 1

\* C12: an entry is fresh, then stale, then missing: a get without a
\* generator returns the value last written (by a regeneration or by set)
\* while less than Expiry seconds have passed since that write, also when
\* stale_at has passed, and None once Expiry seconds have passed.
C12_Lifecycle ==
    \A p \in Procs :
        GetDone(p) /\ c[p].generator = None /\ c[p].written.at # NoneT =>
            c[p].value = (IF c[p].now < c[p].written.at + Expiry
                          THEN c[p].written.value ELSE None)
C12_Witness ==
    \E p \in Procs :
        /\ GetDone(p) /\ c[p].generator = None /\ c[p].written.value = "result"
        /\ c[p].now >= c[p].written.at + Expiry /\ c[p].value = None

\* C13: an invocation run by a worker at or after its expires_at does not
\* call the generator and does not write the entry, one that starts before
\* it calls the generator and, the generator returning, writes the entry;
\* either way it decrements the flag exactly once, when it ends.
C13_ExpiredSkipped ==
    \A t \in TaskIds :
        LET f == tasks[t]
        IN /\ f.st = "queued" => ~f.ran /\ ~f.late
           /\ f.st # "queued" => (f.ran <=> ~f.late)
           /\ ~f.ran => ~f.wrote /\ f.value = None /\ f.exc = None
           /\ f.ran /\ f.st \in {"decr", "decr_seed", "done"} /\ f.exc = None
                 => f.wrote /\ f.value = "result"
           /\ f.decrs = (IF f.st = "done" THEN 1 ELSE 0)
C13_Witness ==
    \E t \in TaskIds :
        /\ tasks[t].st = "done" /\ tasks[t].late /\ ~tasks[t].ran
        /\ tasks[t].decrs = 1 /\ tasks[t].expires_at = now
        /\ FlagValue(tasks[t].key, tasks[t].version) = 0
        /\ ~ReadPacked(store, tasks[t].key, tasks[t].version).some

\* C14: a freshen with a generator that dispatches is the only regeneration
\* of the key in flight while its task is, and it dispatches exactly when
\* its increment yields 1 or less; a freshen that increments while a
\* regeneration is in flight dispatches nothing and takes back its increment
\* (flag absent at the start and not lost).
C14_FreshenSole ==
    FlagKept =>
        \A p \in Procs :
            c[p].op = "freshen" /\ Done(p) /\ c[p].generator # None =>
                /\ c[p].async_result \in TasksInFlight(c[p].key)
                      => InFlight(c[p].key) = 1
                /\ c[p].dispatched = (IF c[p].flag <= 1 THEN 1 ELSE 0)
                /\ ~c[p].quiet =>
                      c[p].dispatched = 0 /\ c[p].incrs = 1 /\ c[p].decrs = 1

\* C15: when a holder left the flag at 1 and never released it, a get with a
\* generator on a stale or missing entry that finds the flag absent, its
\* timeout elapsed (here the only call, no lazy result, the invocation not
\* too late to run), seeds the flag with 1 and is the regenerator, and once
\* it has returned and every task has finished the generator has run.
C15_Scenario(p) ==
    /\ ~hist.clean /\ ~hist.negative /\ hist.flagLost /\ hist.calls = 1
    /\ GetDone(p) /\ c[p].generate /\ c[p].absent
    /\ Quiescent /\ hist.skips = 0 /\ hist.lazies = 0
C15_FlagTimeoutAdmits ==
    \A p \in Procs :
        C15_Scenario(p) => c[p].flag = 1 /\ c[p].incrs = 1 /\ hist.gens = 1

C17_StaleWaitReturnsStale ==
    \A p \in Procs :
        ( /\ HasRead(p) /\ ReadStale(p) /\ c[p].wait_on_generate
          /\ c[p].generator # None )
        => /\ c[p].pc \in {"get_incr", "get_incr_seed", "get_reset", "get_elect",
                           "get_decr", "get_decr_seed", "done"}
           /\ c[p].ran = 0 /\ c[p].exc = None /\ c[p].lazy = "none"
           /\ c[p].value = c[p].packed.value
           /\ c[p].async_result \in TaskIds => ~tasks[c[p].async_result].awaited
C17_Witness ==
    \E p \in Procs :
        /\ GetDone(p) /\ ReadStale(p) /\ c[p].wait_on_generate
        /\ c[p].async_wait_on_generate /\ c[p].dispatched = 1
        /\ c[p].value = "initial"
        /\ c[p].async_result \in TaskIds /\ tasks[c[p].async_result].st = "queued"

WithGenerator == \A p \in Procs : c[p].op = "freshen" => c[p].generator # None

\* C19: while a regeneration of a key is in flight (task dispatched and not
\* finished, or generator running inline) the flag of the key is at least 1
\* (flag absent at the start and not lost, every freshen given a generator).
C19_FlagHeldInFlight ==
    FlagKept /\ WithGenerator =>
        \A k \in Keys, v \in Versions : InFlight(k) >= 1 => FlagValue(k, v) >= 1

\* C20: starting from an absent flag, the flag not being lost and no lazy
\* result being handed out, the flag of a key is never negative (every
\* freshen given a generator).
C20_FlagNeverNegative ==
    FlagKept /\ WithGenerator /\ hist.lazies = 0 => \A k \in Keys, v \in Versions : FlagValue(k, v) >= 0

\* C21: a get without a generator, or one that reads a fresh entry, returns
\* what it read at once and without an exception (None when there is no
\* entry, also with wait_on_generate=True); it makes no change to the flag
\* (no increment, reset or decrement) or to the entry, calls no generator
\* and dispatches nothing.
C21_NoRegenerationFrame ==
    \A p \in Procs :
        HasRead(p) /\ (c[p].generator = None \/ ReadFresh(p)) =>
            /\ Done(p) /\ ~c[p].generate /\ c[p].exc = None
            /\ c[p].value = c[p].packed.value
            /\ ReadMissing(p) => c[p].value = None
            /\ c[p].incrs = 0 /\ c[p].decrs = 0 /\ ~c[p].reset /\ ~c[p].absent
            /\ ~c[p].do_decr /\ ~c[p].wrote /\ c[p].ran = 0
            /\ c[p].dispatched = 0 /\ c[p].async_result = 0 /\ c[p].lazy = "none"
C21_Witness ==
    \E p \in Procs :
        /\ GetDone(p) /\ c[p].generator = None /\ c[p].wait_on_generate
        /\ ReadMissing(p) /\ c[p].value = None
        /\ FlagValue(c[p].key, c[p].version) = 1
        /\ ReadPacked(store, c[p].key, c[p].version) = NoPacked
        /\ \E t \in TaskIds : tasks[t].key = c[p].key /\ tasks[t].st = "queued"

====
